---- MODULE Spec2Model ----
(***************************************************************************)
(* Label PDF generator (src/app.py): the font-fit solver                   *)
(* find_max_font_size_for_multiline, the composer draw_label and the batch *)
(* driver create_pdf, as a state machine.                                  *)
(*                                                                         *)
(* Text is a sequence of one-character strings.  Lengths that the code     *)
(* holds as reals are kept exact by scaling: a width returned by           *)
(* pdfmetrics.stringWidth is glyph-units * size / 1000, so the model keeps *)
(* 1000 * width; x and y are halves, so the model keeps 2000 * x and 2 * y.*)
(* Canvas dimensions are integers of device units.                         *)
(***************************************************************************)
EXTENDS Integers, Sequences, FiniteSets, TLC

VARIABLES
    entry,            \* the function called from outside: "solver", "label", "pdf"
    pc,               \* position in the code
    err,              \* the exception that ended the run, "" when none
    data_list,        \* create_pdf: the input values
    idx,              \* create_pdf: number of values the for loop has finished
    text,             \* draw_label: text
    font_name,        \* font identifier
    width,            \* canvas width  (max_width of the solver)
    height,           \* canvas height (max_height of the solver)
    font_override,    \* draw_label: font_override
    lines,            \* the line set (text.split())
    probe_size,       \* solver: its local font_size, the candidate size
    raw_font_size,    \* the solver's return value
    font_size,        \* draw_label: font_size, the size drawn with
    start_y2,         \* draw_label: 2 * start_y
    i,                \* draw_label: index of the next line to draw
    c_font,           \* canvas: last setFont(name, size)
    c_ops,            \* canvas: drawString calls on the current page
    c_pages,          \* canvas: pages closed by showPage, each its drawString calls
    c_saves           \* canvas: number of save() calls

vars == <<entry, pc, err, data_list, idx, text, font_name, width, height,
          font_override, lines, probe_size, raw_font_size, font_size, start_y2,
          i, c_font, c_ops, c_pages, c_saves>>

-----------------------------------------------------------------------------
(* Bounds of the model *)

MaxTextLen == 2
MaxDim == 10
MaxValues == 2

(* Program constants *)

FONT_ADJUSTMENT == 2
LINE_GAP == 2
MARGIN == 4
OVERRIDE_RANGE == 5
UNITS_PER_EM == 1000

-----------------------------------------------------------------------------
(* Strings *)

Max(a, b) == IF a >= b THEN a ELSE b

IsSpace(ch) == ch = " "

RECURSIVE LStrip(_)
LStrip(s) ==
    IF s = <<>> THEN <<>>
    ELSE IF IsSpace(Head(s)) THEN LStrip(Tail(s)) ELSE s

RECURSIVE RStrip(_)
RStrip(s) ==
    IF s = <<>> THEN <<>>
    ELSE IF IsSpace(s[Len(s)]) THEN RStrip(SubSeq(s, 1, Len(s) - 1)) ELSE s

\* str.strip()
Strip(s) == RStrip(LStrip(s))

LowerChar(ch) ==
    CASE ch = "N" -> "n"
      [] ch = "A" -> "a"
      [] OTHER -> ch

\* str.lower()
Lower(s) == [k \in 1..Len(s) |-> LowerChar(s[k])]

\* length of the run of non-space characters s starts with
RECURSIVE WordLen(_)
WordLen(s) ==
    IF s = <<>> \/ IsSpace(Head(s)) THEN 0 ELSE 1 + WordLen(Tail(s))

\* str.split(): the maximal runs of non-space characters, in order
RECURSIVE Split(_)
Split(s) ==
    LET t == LStrip(s) IN
    IF t = <<>> THEN <<>>
    ELSE LET k == WordLen(t) IN
         <<SubSeq(t, 1, k)>> \o Split(SubSeq(t, k + 1, Len(t)))

-----------------------------------------------------------------------------
(* Font metrics: pdfmetrics.stringWidth(line, font_name, font_size) *)

AVAILABLE_FONTS == {"Helvetica", "Courier"}

\* a font registered with the metrics provider whose glyphs are all one em wide
RegisteredFonts == AVAILABLE_FONTS \cup {"UnitMono"}

FontKnown(f) == f \in RegisteredFonts

\* advance width of a glyph in 1/1000 em
GlyphWidth(f, ch) ==
    CASE f = "Courier" -> 600
      [] f = "UnitMono" -> UNITS_PER_EM
      [] OTHER -> CASE ch = " " -> 278
                    [] ch = "a" -> 556
                    [] ch = "n" -> 556
                    [] ch = "A" -> 667
                    [] OTHER -> 722

RECURSIVE EmWidth(_, _)
EmWidth(line, f) ==
    IF line = <<>> THEN 0 ELSE GlyphWidth(f, Head(line)) + EmWidth(Tail(line), f)

\* 1000 * stringWidth(line, f, size)
StringWidth(line, f, size) == EmWidth(line, f) * size

\* 1000 * max(stringWidth(line, ...) for line in lines), lines non-empty
RECURSIVE MaxLineWidth(_, _, _)
MaxLineWidth(ls, f, size) ==
    IF Len(ls) = 1 THEN StringWidth(ls[1], f, size)
    ELSE Max(StringWidth(ls[1], f, size), MaxLineWidth(Tail(ls), f, size))

-----------------------------------------------------------------------------
(* find_max_font_size_for_multiline *)

\* len(lines) * font_size + (len(lines) - 1) * 2
TotalHeight(n, size) == n * size + (n - 1) * LINE_GAP

OverflowsWidthOnly(ls, w, h, f, size) ==
    MaxLineWidth(ls, f, size) > UNITS_PER_EM * (w - MARGIN)

\* the test of line 30
Overflows(ls, w, h, f, size) ==
    \/ MaxLineWidth(ls, f, size) > UNITS_PER_EM * (w - MARGIN)
    \/ TotalHeight(Len(ls), size) > h - MARGIN

SolverResultNoDecrement(size) == Max(size, 1)

SolverResultNoFloor(size) == size - 1

\* the value returned at line 31
SolverResult(size) == Max(size - 1, 1)

\* where the solver's result goes
AfterSolver == IF entry = "solver" THEN "solver_returned" ELSE "label_size"

\* lines 28-32: the candidate fits, try the next size
SolverStep ==
    /\ pc = "solver_loop"
    /\ lines # <<>>
    /\ FontKnown(font_name)
    /\ ~Overflows(lines, width, height, font_name, probe_size)
    /\ probe_size' = probe_size + 1
    /\ UNCHANGED <<entry, pc, err, data_list, idx, text, font_name, width, height,
                   font_override, lines, raw_font_size, font_size, start_y2, i,
                   c_font, c_ops, c_pages, c_saves>>

\* lines 28-31: the candidate overflows, return the previous size
SolverReturn ==
    /\ pc = "solver_loop"
    /\ lines # <<>>
    /\ FontKnown(font_name)
    /\ Overflows(lines, width, height, font_name, probe_size)
    /\ raw_font_size' = SolverResult(probe_size)
    /\ pc' = AfterSolver
    /\ UNCHANGED <<entry, err, data_list, idx, text, font_name, width, height,
                   font_override, lines, probe_size, font_size, start_y2, i,
                   c_font, c_ops, c_pages, c_saves>>

\* line 28: max() of an empty sequence raises ValueError; stringWidth of an
\* unknown font raises KeyError.  Nothing catches either.
SolverRaise ==
    /\ pc = "solver_loop"
    /\ lines = <<>> \/ ~FontKnown(font_name)
    /\ err' = IF lines = <<>> THEN "ValueError" ELSE "KeyError"
    /\ pc' = "raised"
    /\ UNCHANGED <<entry, data_list, idx, text, font_name, width, height,
                   font_override, lines, probe_size, raw_font_size, font_size,
                   start_y2, i, c_font, c_ops, c_pages, c_saves>>

-----------------------------------------------------------------------------
(* Inputs *)

Alphabet == {" ", "a", "N"}

AllStrings(n) == UNION {[1..k -> Alphabet] : k \in 0..n}

ExampleTexts ==
    { <<"n", "a", "n">>, <<" ", "N", "a", "N", " ">>, <<"n", "a", "n", "a">>,
      <<"a", "a", "a", "a", "a">>, <<"a", "N", " ", " ", "N">>,
      <<"n", " ", "a", " ", "N">> }

Texts == AllStrings(MaxTextLen) \cup ExampleTexts

LineSets == {Split(t) : t \in Texts}

FontNames == RegisteredFonts \cup {"NoSuchFont"}

Dims == 0..MaxDim

Canvases == (Dims \X Dims) \cup {<<200, 100>>}

Overrides == (0 - OVERRIDE_RANGE)..OVERRIDE_RANGE

InitSolver ==
    /\ entry = "solver"
    /\ pc = "solver_loop"
    /\ err = ""
    /\ data_list = <<>>
    /\ idx = 0
    /\ text = <<>>
    /\ font_name \in FontNames
    /\ \E cv \in Canvases : width = cv[1] /\ height = cv[2]
    /\ font_override = 0
    /\ lines \in LineSets
    /\ probe_size = 1
    /\ raw_font_size = 0
    /\ font_size = 0
    /\ start_y2 = 0
    /\ i = 0
    /\ c_font = <<>>
    /\ c_ops = <<>>
    /\ c_pages = <<>>
    /\ c_saves = 0

NextSolver == SolverStep \/ SolverReturn \/ SolverRaise

SpecSolver == InitSolver /\ [][NextSolver]_vars

FairSolver == SpecSolver /\ WF_vars(NextSolver)

-----------------------------------------------------------------------------
(* draw_label *)

FinalSizeNoClamp(raw, override) == raw - FONT_ADJUSTMENT + override

FinalSizeAddsAdjustment(raw, override) == Max(raw + FONT_ADJUSTMENT + override, 1)

\* line 37
FinalSize(raw, override) == Max(raw - FONT_ADJUSTMENT + override, 1)

\* 2 * start_y, line 41
StartY2(h, n, size) == h - TotalHeight(n, size)

\* 2000 * x, line 45 (k counts from 1)
LineX2000(w, line, f, size) == UNITS_PER_EM * w - StringWidth(line, f, size)

LineY2TopDown(sy2, n, k, size) == sy2 + 2 * ((k - 1) * (size + LINE_GAP))

\* 2 * y of the k-th line of n, line 46 (k counts from 1, i = k - 1)
LineY2(sy2, n, k, size) == sy2 + 2 * ((n - (k - 1) - 1) * (size + LINE_GAP))

\* where draw_label returns to
AfterLabel == IF entry = "pdf" THEN "pdf_showPage" ELSE "label_returned"

\* lines 35-36: split the text and call the solver (line 26: font_size = 1)
LabelSplit ==
    /\ pc = "label_split"
    /\ lines' = Split(text)
    /\ probe_size' = 1
    /\ pc' = "solver_loop"
    /\ UNCHANGED <<entry, err, data_list, idx, text, font_name, width, height,
                   font_override, raw_font_size, font_size, start_y2, i,
                   c_font, c_ops, c_pages, c_saves>>

\* lines 37-41: the size drawn with, setFont, the block's start_y
LabelSetFont ==
    /\ pc = "label_size"
    /\ font_size' = FinalSize(raw_font_size, font_override)
    /\ c_font' = <<font_name, font_size'>>
    /\ start_y2' = StartY2(height, Len(lines), font_size')
    /\ i' = 0
    /\ pc' = "label_draw"
    /\ UNCHANGED <<entry, err, data_list, idx, text, font_name, width, height,
                   font_override, lines, probe_size, raw_font_size,
                   c_ops, c_pages, c_saves>>

\* lines 43-47: one iteration of the for loop, one drawString
LabelDrawLine ==
    /\ pc = "label_draw"
    /\ i < Len(lines)
    /\ c_ops' = Append(c_ops,
                       [x2000 |-> LineX2000(width, lines[i + 1], font_name, font_size),
                        y2    |-> LineY2(start_y2, Len(lines), i + 1, font_size),
                        line  |-> lines[i + 1]])
    /\ i' = i + 1
    /\ UNCHANGED <<entry, pc, err, data_list, idx, text, font_name, width, height,
                   font_override, lines, probe_size, raw_font_size, font_size,
                   start_y2, c_font, c_pages, c_saves>>

\* the for loop of line 43 is exhausted: draw_label returns
LabelReturn ==
    /\ pc = "label_draw"
    /\ i = Len(lines)
    /\ pc' = AfterLabel
    /\ UNCHANGED <<entry, err, data_list, idx, text, font_name, width, height,
                   font_override, lines, probe_size, raw_font_size, font_size,
                   start_y2, i, c_font, c_ops, c_pages, c_saves>>

LabelDims == {0, 5, 8, 11, 16}

LabelCanvases == LabelDims \X LabelDims

InitLabel ==
    /\ entry = "label"
    /\ pc = "label_split"
    /\ err = ""
    /\ data_list = <<>>
    /\ idx = 0
    /\ text \in Texts
    /\ font_name \in AVAILABLE_FONTS \cup {"NoSuchFont"}
    /\ \E cv \in LabelCanvases : width = cv[1] /\ height = cv[2]
    /\ font_override \in Overrides
    /\ lines = <<>>
    /\ probe_size = 0
    /\ raw_font_size = 0
    /\ font_size = 0
    /\ start_y2 = 0
    /\ i = 0
    /\ c_font = <<>>
    /\ c_ops = <<>>
    /\ c_pages = <<>>
    /\ c_saves = 0

NextLabel ==
    \/ LabelSplit
    \/ SolverStep
    \/ SolverReturn
    \/ SolverRaise
    \/ LabelSetFont
    \/ LabelDrawLine
    \/ LabelReturn

SpecLabel == InitLabel /\ [][NextLabel]_vars

-----------------------------------------------------------------------------
(* create_pdf *)

NaN == <<"n", "a", "n">>

IsSkippedCaseSensitive(t) == t = <<>> \/ t = NaN

\* line 54, on the stripped text
IsSkipped(t) == t = <<>> \/ Lower(t) = NaN

\* lines 52-55: the next value is blank or "nan": continue
PdfSkip ==
    /\ pc = "pdf_loop"
    /\ idx < Len(data_list)
    /\ text' = Strip(data_list[idx + 1])
    /\ IsSkipped(text')
    /\ idx' = idx + 1
    /\ UNCHANGED <<entry, pc, err, data_list, font_name, width, height,
                   font_override, lines, probe_size, raw_font_size, font_size,
                   start_y2, i, c_font, c_ops, c_pages, c_saves>>

\* lines 52-56: the next value is kept: call draw_label
PdfCallDrawLabel ==
    /\ pc = "pdf_loop"
    /\ idx < Len(data_list)
    /\ text' = Strip(data_list[idx + 1])
    /\ ~IsSkipped(text')
    /\ pc' = "label_split"
    /\ UNCHANGED <<entry, err, data_list, idx, font_name, width, height,
                   font_override, lines, probe_size, raw_font_size, font_size,
                   start_y2, i, c_font, c_ops, c_pages, c_saves>>

\* line 57: showPage closes the current page; the loop goes to the next value
PdfShowPage ==
    /\ pc = "pdf_showPage"
    /\ c_pages' = Append(c_pages, c_ops)
    /\ c_ops' = <<>>
    /\ idx' = idx + 1
    /\ pc' = "pdf_loop"
    /\ UNCHANGED <<entry, err, data_list, text, font_name, width, height,
                   font_override, lines, probe_size, raw_font_size, font_size,
                   start_y2, i, c_font, c_saves>>

\* lines 58-60: the loop is exhausted: save and return the buffer
PdfSave ==
    /\ pc = "pdf_loop"
    /\ idx = Len(data_list)
    /\ c_saves' = c_saves + 1
    /\ pc' = "pdf_returned"
    /\ UNCHANGED <<entry, err, data_list, idx, text, font_name, width, height,
                   font_override, lines, probe_size, raw_font_size, font_size,
                   start_y2, i, c_font, c_ops, c_pages>>

PdfValues ==
    { <<>>, <<" ">>, <<"a">>, <<" ", "a", " ">>, <<"a", " ", "N">>,
      <<"n", "a", "n">>, <<" ", "N", "a", "N", " ">>, <<"n", "a", "n", "a">> }

DataLists == UNION {[1..k -> PdfValues] : k \in 0..MaxValues}

InitPdf ==
    /\ entry = "pdf"
    /\ pc = "pdf_loop"
    /\ err = ""
    /\ data_list \in DataLists
    /\ idx = 0
    /\ text = <<>>
    /\ font_name \in FontNames
    /\ width = MaxDim
    /\ height = MaxDim
    /\ font_override \in {0, OVERRIDE_RANGE}
    /\ lines = <<>>
    /\ probe_size = 0
    /\ raw_font_size = 0
    /\ font_size = 0
    /\ start_y2 = 0
    /\ i = 0
    /\ c_font = <<>>
    /\ c_ops = <<>>
    /\ c_pages = <<>>
    /\ c_saves = 0

NextPdf ==
    \/ PdfSkip
    \/ PdfCallDrawLabel
    \/ PdfShowPage
    \/ PdfSave
    \/ LabelSplit
    \/ SolverStep
    \/ SolverReturn
    \/ SolverRaise
    \/ LabelSetFont
    \/ LabelDrawLine
    \/ LabelReturn

SpecPdf == InitPdf /\ [][NextPdf]_vars

-----------------------------------------------------------------------------
(* Properties *)

\* size s fits: every line's width is within the width budget and the stacked
\* block is within the height budget
Fits(ls, w, h, f, s) ==
    /\ \A k \in 1..Len(ls) : StringWidth(ls[k], f, s) <= UNITS_PER_EM * (w - 4)
    /\ Len(ls) * s + (Len(ls) - 1) * 2 <= h - 4

SolverDone == pc = "solver_returned"

\* C2: when size 1 fits, the solver returns the largest size that fits both
\* budgets: every size up to the result fits and no larger size does; one
\* 5-character line of 1-em glyphs on a 200 x 100 canvas gives 39.
C2_LargestFit ==
    (SolverDone /\ Fits(lines, width, height, font_name, 1)) =>
        /\ \A s \in 1..(height + 1) :
              Fits(lines, width, height, font_name, s) <=> s <= raw_font_size
        /\ (/\ lines = << <<"a", "a", "a", "a", "a">> >>
            /\ font_name = "UnitMono" /\ width = 200 /\ height = 100)
              => raw_font_size = 39

C2_Witness ==
    /\ SolverDone
    /\ lines = << <<"a", "a", "a", "a", "a">> >>
    /\ font_name = "UnitMono" /\ width = 200 /\ height = 100
    /\ raw_font_size = 39

\* C3: the solver never returns less than 1, and returns exactly 1 when
\* size 1 already overflows the width or the height budget.
C3_FloorAtOne ==
    SolverDone =>
        /\ raw_font_size >= 1
        /\ ~Fits(lines, width, height, font_name, 1) => raw_font_size = 1

C3_Witness ==
    /\ SolverDone
    /\ ~Fits(lines, width, height, font_name, 1)
    /\ raw_font_size = 1

\* the first size whose block height exceeds the height budget
FirstHeightOverflow(n, h) ==
    CHOOSE s \in 1..(Max(h, 0) + 1) :
        /\ n * s + (n - 1) * 2 > h - 4
        /\ \A t \in 1..(s - 1) : n * t + (n - 1) * 2 <= h - 4

\* C9: for a non-empty line set the search loop ends: the candidate size never
\* passes the first size whose block height exceeds maxHeight - 4, and the
\* solver returns.
C9_Terminates ==
    /\ []((pc \in {"solver_loop", "solver_returned"} /\ lines # <<>>)
            => probe_size <= FirstHeightOverflow(Len(lines), height))
    /\ ((pc = "solver_loop" /\ lines # <<>> /\ FontKnown(font_name))
            ~> pc = "solver_returned")

\* the search ran up to the height limit with the width budget still respected
C9_Witness ==
    /\ SolverDone
    /\ probe_size > 1
    /\ probe_size = FirstHeightOverflow(Len(lines), height)
    /\ \A k \in 1..Len(lines) :
          StringWidth(lines[k], font_name, probe_size) <= UNITS_PER_EM * (width - 4)

LabelSized == entry = "label" /\ pc \in {"label_draw", "label_returned"}

LabelDone == entry = "label" /\ pc = "label_returned"

\* C4: the size drawn with is max(rawSize - 2 + sizeOverride, 1): never below
\* 1, and exactly 1 with override -5 when the raw size is at most 8.
C4_FinalSizeClamped ==
    LabelSized =>
        /\ font_size >= 1
        /\ font_size >= raw_font_size - 2 + font_override
        /\ font_size = 1 \/ font_size = raw_font_size - 2 + font_override
        /\ (font_override = -5 /\ raw_font_size <= 8) => font_size = 1
        /\ c_font = <<font_name, font_size>>

C4_Witness ==
    /\ LabelDone
    /\ font_override = -5
    /\ raw_font_size = 8
    /\ font_size = 1

\* the words of ls joined by single spaces
RECURSIVE Join(_)
Join(ls) ==
    IF ls = <<>> THEN <<>>
    ELSE IF Len(ls) = 1 THEN ls[1]
    ELSE ls[1] \o <<" ">> \o Join(Tail(ls))

\* s with every run of spaces reduced to one space and none at either end
RECURSIVE Squeeze(_)
Squeeze(s) ==
    IF s = <<>> THEN <<>>
    ELSE IF s[1] = " " /\ (Len(s) = 1 \/ s[2] = " ") THEN Squeeze(Tail(s))
    ELSE <<s[1]>> \o Squeeze(Tail(s))

TrimLeft(s) == IF s # <<>> /\ s[1] = " " THEN Tail(s) ELSE s

\* C5: draw_label draws one line per whitespace-separated word, in order,
\* each centred horizontally, the block centred vertically, consecutive lines
\* finalSize + 2 apart with the first word highest and the last at startY.
C5_Layout ==
    LabelDone =>
        LET n == Len(c_ops) IN
        /\ n >= 1
        /\ \A k \in 1..n :
              /\ c_ops[k].line # <<>>
              /\ \A j \in 1..Len(c_ops[k].line) : c_ops[k].line[j] # " "
        /\ Join([k \in 1..n |-> c_ops[k].line]) = TrimLeft(Squeeze(text))
        /\ \A k \in 1..n :
              \* left margin = right margin (in 1/2000 units)
              c_ops[k].x2000 =
                  2 * UNITS_PER_EM * width - c_ops[k].x2000
                    - 2 * StringWidth(c_ops[k].line, font_name, font_size)
        /\ \A k \in 1..(n - 1) :
              /\ c_ops[k].y2 > c_ops[k + 1].y2
              /\ c_ops[k].y2 - c_ops[k + 1].y2 = 2 * (font_size + 2)
        /\ c_ops[n].y2 = start_y2
        /\ start_y2 = height - (n * font_size + (n - 1) * 2)

C5_Witness ==
    /\ LabelDone
    /\ text = <<"a", "N", " ", " ", "N">>
    /\ Len(c_ops) = 2
    /\ c_ops[1].line = <<"a", "N">>
    /\ c_ops[2].line = <<"N">>
    /\ c_ops[1].y2 > c_ops[2].y2

\* C6: a text with no word (empty or only whitespace) is skipped by
\* draw_label: nothing is drawn and no error is raised.
C6_BlankSkipped ==
    (entry = "label" /\ Split(text) = <<>>) => (err = "" /\ c_ops = <<>>)

\* C10: when size 1 fits and sizeOverride <= 2, the size drawn with is at most
\* the raw size and the block stays inside the margins (block height <=
\* canvasHeight - 4, startY >= 2, every line width <= canvasWidth - 4, every
\* x >= 2); startY is negative only with sizeOverride > 2.
C10_InsideMargins ==
    (LabelSized /\ Fits(lines, width, height, font_name, 1)) =>
        /\ font_override <= 2 =>
              /\ font_size <= raw_font_size
              /\ Len(lines) * font_size + (Len(lines) - 1) * 2 <= height - 4
              /\ start_y2 >= 2 * 2
              /\ \A k \in 1..Len(lines) :
                    StringWidth(lines[k], font_name, font_size)
                        <= UNITS_PER_EM * (width - 4)
              /\ \A k \in 1..Len(c_ops) : c_ops[k].x2000 >= 2 * UNITS_PER_EM * 2
        /\ start_y2 < 0 => font_override > 2

C10_Witness ==
    /\ LabelDone
    /\ Fits(lines, width, height, font_name, 1)
    /\ font_override = 2
    /\ raw_font_size > 1
    /\ font_size = raw_font_size
    /\ Len(c_ops) = 2

\* a value create_pdf makes a page of
Printable(v) == Strip(v) # <<>> /\ Lower(Strip(v)) # <<"n", "a", "n">>

NonBlank(v) == Strip(v) # <<>>

PageLines(p) == [k \in 1..Len(p) |-> p[k].line]

PagesMatch(values) ==
    /\ Len(c_pages) = Len(values)
    /\ \A k \in 1..Len(values) : Join(PageLines(c_pages[k])) = TrimLeft(Squeeze(values[k]))

\* C1 (as amended): the pages emitted are exactly the values that after
\* stripping are neither empty nor "nan" in any letter case, in input order,
\* one page per such value: at every moment for the values processed so far,
\* and for the whole input when create_pdf returns.
C1_PagesArePrintableValues ==
    entry = "pdf" =>
        /\ PagesMatch(SelectSeq(SubSeq(data_list, 1, idx), Printable))
        /\ pc = "pdf_returned" => idx = Len(data_list)

C1_Witness ==
    /\ entry = "pdf"
    /\ pc = "pdf_returned"
    /\ Len(data_list) = 2
    /\ Len(c_pages) = 1
    /\ \E k \in 1..2 : NonBlank(data_list[k]) /\ ~Printable(data_list[k])

\* C1 (as claimed): when create_pdf returns the pages are exactly the
\* non-blank values, in order.
C1_PagesAreNonBlankValues ==
    (entry = "pdf" /\ pc = "pdf_returned") => PagesMatch(SelectSeq(data_list, NonBlank))

PdfEnded == entry = "pdf" /\ pc \in {"pdf_returned", "raised"}

\* C7: every run of create_pdf saves the canvas exactly once, after all pages,
\* also when drawing or measuring a request raises.
C7_SavedExactlyOnce ==
    /\ entry = "pdf" => c_saves <= 1
    /\ (entry = "pdf" /\ c_saves = 1) => idx = Len(data_list)
    /\ PdfEnded => c_saves = 1

\* C8: with a font identifier outside the supported set create_pdf ends with
\* an error, for every input list, and no page has been emitted by then.
C8_UnknownFontAborts ==
    (PdfEnded /\ ~FontKnown(font_name)) => (pc = "raised" /\ c_pages = <<>>)

====
